---- MODULE Spec2Model ----
(* Model of scripts/generate_icons.py: the __main__ block and              *)
(* generate_android_icons(source_path, output_dir), one action per         *)
(* statement, over an abstract filesystem below output_dir.                *)
EXTENDS Integers, Sequences, FiniteSets, TLC

VARIABLES
  src,        \* the file at source_path (never written by the script)
  fault,      \* the environment: which library call, if any, raises
  root,       \* output_dir exists
  dirs,       \* entries k whose directory output_dir/folder exists
  files,      \* content of output_dir/folder/name for every entry and name
  pc,         \* the statement about to run
  i,          \* position of the for loop in the sizes table
  source_img, \* the local source_img
  resized_img,\* the local resized_img
  exc,        \* the exception in flight
  out,        \* lines printed by the current run
  run,        \* number of the current run
  snap,       \* history: the filesystem when the current run started
  prev,       \* history: outcome of the previous run
  opened,     \* history: Image.open was called in this run
  ensured,    \* history: entries whose os.makedirs returned in this run
  written,    \* history: entries whose save returned in this run
  attempts,   \* history: how often each loop statement ran per entry
  propagated  \* history: an exception left generate_android_icons

vars == <<src, fault, root, dirs, files, pc, i, source_img, resized_img, exc,
          out, run, snap, prev, opened, ensured, written, attempts,
          propagated>>

(* ---------------------------- bounds ----------------------------------- *)
MaxRuns == 2
MaxSrcEdge == 2

(* ------------------------- the sizes table ----------------------------- *)
Labels == <<"mipmap-mdpi", "mipmap-hdpi", "mipmap-xhdpi", "mipmap-xxhdpi",
            "mipmap-xxxhdpi">>
Sizes == <<48, 72, 96, 144, 192>>
N == Len(Labels)
Entries == 1..N

OutputName == "ic_launcher.png"
FileNames == {"ic_launcher.png", "ic_launcher_round.png"}
Paths == Entries \X FileNames

(* --------------------------- file contents ----------------------------- *)
NoFile == [kind |-> "none", mode |-> "", w |-> 0, h |-> 0]
OldFile == [kind |-> "old", mode |-> "", w |-> 0, h |-> 0]
PartialFile == [kind |-> "partial", mode |-> "", w |-> 0, h |-> 0]
NoResized == [mode |-> "", w |-> 0, h |-> 0]
NoImg == [mode |-> "", w |-> 0, h |-> 0, loaded |-> FALSE]

Modes == {"RGB", "RGBA"}
SourceFiles ==
  {[exists |-> FALSE, kind |-> "none", mode |-> "", w |-> 0, h |-> 0],
   [exists |-> TRUE, kind |-> "garbage", mode |-> "", w |-> 0, h |-> 0]}
  \cup [exists : {TRUE}, kind : {"good", "truncated"}, mode : Modes,
        w : 1..MaxSrcEdge, h : 1..MaxSrcEdge]

NoFault == [entry |-> 0, op |-> "none"]
Faults == {NoFault}
  \cup [entry : Entries, op : {"makedirs", "resize", "save_open", "save_write"}]

InitDirSets == {1..k : k \in 0..N} \cup {k..N : k \in Entries}

(* ------------------------------ messages ------------------------------- *)
Msg(tag, label, cause) == [tag |-> tag, label |-> label, cause |-> cause]
NoExc == [type |-> "none", label |-> 0, text |-> ""]
Exc(type, label, text) == [type |-> type, label |-> label, text |-> text]

(* str(e) names a path only when the exception carries a filename *)
ErrorLine(e) == Msg("Error", e.label, e.text)
PillowHint == Msg("PillowHint", 0, "")
NotFoundLine == Msg("SourceNotFound", 0, "")
SaveLogoHint == Msg("SaveLogoHint", 0, "")
LoadedLine == Msg("Loaded", 0, "")
GeneratedLine(k) == Msg("Generated", k, "")
SuccessLine == Msg("Success", 0, "")

(* --------------------------- pure helpers ------------------------------ *)
\* variant: the existence check of line 54 left out
SourcePresent_Always == TRUE

SourcePresent == src.exists

\* variant: only palette images are converted
NeedsConvert_PaletteOnly(im) == im.mode = "P"

NeedsConvert(im) == im.mode # "RGBA"

ConvertRGBA(im) == [im EXCEPT !.mode = "RGBA", !.loaded = TRUE]

ResizeImg(im, size) == [mode |-> im.mode, w |-> size, h |-> size]

EncodePNG(im) == [kind |-> "png", mode |-> im.mode, w |-> im.w, h |-> im.h]

\* variant: the wrong fixed file name
output_path_Round(k) == <<k, "ic_launcher_round.png">>

output_path(k) == <<k, OutputName>>

\* variant: os.makedirs without exist_ok=True
MakedirsFails_NoExistOk(k) ==
  fault = [entry |-> k, op |-> "makedirs"] \/ k \in dirs

MakedirsFails(k) == fault = [entry |-> k, op |-> "makedirs"]

\* variant: except OSError (UnidentifiedImageError is an OSError)
Catches_OSError(e) == e.type # "MemoryError"

Catches(e) == TRUE

\* variant: for folder in sorted(sizes)
ItemAt_Sorted(p) == <<2, 1, 3, 4, 5>>[p]

\* a dict iterates in insertion order: position p of the loop is entry p
ItemAt(p) == p

\* pixel data is read lazily: Image.open only identifies the file
LoadFails(im) == ~im.loaded /\ src.kind = "truncated"

(* ------------------------------- Init ---------------------------------- *)
Init ==
  /\ src \in SourceFiles
  /\ fault \in Faults
  /\ \E D \in InitDirSets, withFiles \in BOOLEAN :
       /\ dirs = D
       /\ files = [p \in Paths |->
                     IF p[1] \in D /\ withFiles THEN OldFile ELSE NoFile]
  /\ root \in (IF dirs = {} THEN BOOLEAN ELSE {TRUE})
  /\ pc = "main"
  /\ i = 0
  /\ source_img = NoImg
  /\ resized_img = NoResized
  /\ exc = NoExc
  /\ out = <<>>
  /\ run = 1
  /\ snap = [root |-> root, dirs |-> dirs, files |-> files]
  /\ prev = [ran |-> FALSE, ok |-> FALSE, dirs |-> {}, files |-> files]
  /\ opened = FALSE
  /\ ensured = {}
  /\ written = {}
  /\ attempts = [s \in {"makedirs", "resize", "save"} |-> [k \in Entries |-> 0]]
  /\ propagated = FALSE

Raise(e) == pc' = "except" /\ exc' = e

(* ------------------------------ actions -------------------------------- *)
\* lines 54-58
Main ==
  /\ pc = "main"
  /\ IF SourcePresent
       THEN pc' = "open" /\ out' = out
       ELSE pc' = "done" /\ out' = out \o <<NotFoundLine, SaveLogoHint>>
  /\ UNCHANGED <<src, fault, root, dirs, files, i, source_img, resized_img,
                 exc, run, snap, prev, opened, ensured, written, attempts,
                 propagated>>

\* lines 24-25
Open ==
  /\ pc = "open"
  /\ opened' = TRUE
  /\ IF ~src.exists
       THEN /\ Raise(Exc("FileNotFoundError", 0, "No such file or directory"))
            /\ UNCHANGED <<source_img, out>>
       ELSE IF src.kind = "garbage"
         THEN /\ Raise(Exc("UnidentifiedImageError", 0,
                           "cannot identify image file"))
              /\ UNCHANGED <<source_img, out>>
         ELSE /\ source_img' = [mode |-> src.mode, w |-> src.w, h |-> src.h,
                                loaded |-> FALSE]
              /\ out' = Append(out, LoadedLine)
              /\ pc' = "convert"
              /\ exc' = exc
  /\ UNCHANGED <<src, fault, root, dirs, files, i, resized_img, run, snap,
                 prev, ensured, written, attempts, propagated>>

\* lines 28-29, then the first step of the for statement of line 31
Convert ==
  /\ pc = "convert"
  /\ IF NeedsConvert(source_img)
       THEN IF LoadFails(source_img)
              THEN /\ Raise(Exc("OSError", 0, "image file is truncated"))
                   /\ UNCHANGED <<source_img, i>>
              ELSE /\ source_img' = ConvertRGBA(source_img)
                   /\ pc' = "makedirs" /\ i' = 1 /\ exc' = exc
       ELSE /\ pc' = "makedirs" /\ i' = 1 /\ exc' = exc
            /\ source_img' = source_img
  /\ UNCHANGED <<src, fault, root, dirs, files, resized_img, out, run, snap,
                 prev, opened, ensured, written, attempts, propagated>>

\* lines 33-34
Makedirs ==
  /\ pc = "makedirs"
  /\ attempts' = [attempts EXCEPT !["makedirs"][ItemAt(i)] = @ + 1]
  /\ IF MakedirsFails(ItemAt(i))
       THEN \* missing parents may have been created before the leaf fails
            /\ Raise(Exc("OSError", ItemAt(i), "Permission denied"))
            /\ root' \in {root, TRUE}
            /\ UNCHANGED <<dirs, ensured>>
       ELSE /\ root' = TRUE
            /\ dirs' = dirs \cup {ItemAt(i)}
            /\ ensured' = ensured \cup {ItemAt(i)}
            /\ pc' = "resize" /\ exc' = exc
  /\ UNCHANGED <<src, fault, files, i, source_img, resized_img, out, run,
                 snap, prev, opened, written, propagated>>

\* line 37
Resize ==
  /\ pc = "resize"
  /\ attempts' = [attempts EXCEPT !["resize"][ItemAt(i)] = @ + 1]
  /\ IF LoadFails(source_img)
       THEN /\ Raise(Exc("OSError", 0, "image file is truncated"))
            /\ UNCHANGED <<source_img, resized_img>>
       ELSE IF fault = [entry |-> ItemAt(i), op |-> "resize"]
         THEN /\ Raise(Exc("MemoryError", 0, ""))
              /\ UNCHANGED <<source_img, resized_img>>
         ELSE /\ source_img' = [source_img EXCEPT !.loaded = TRUE]
              /\ resized_img' = ResizeImg(source_img, Sizes[ItemAt(i)])
              /\ pc' = "save" /\ exc' = exc
  /\ UNCHANGED <<src, fault, root, dirs, files, i, out, run, snap, prev,
                 opened, ensured, written, propagated>>

\* lines 40-41
Save ==
  /\ pc = "save"
  /\ attempts' = [attempts EXCEPT !["save"][ItemAt(i)] = @ + 1]
  /\ LET p == output_path(ItemAt(i)) IN
       IF p[1] \notin dirs
         THEN /\ Raise(Exc("FileNotFoundError", p[1],
                           "No such file or directory"))
              /\ UNCHANGED <<files, written>>
       ELSE IF fault = [entry |-> ItemAt(i), op |-> "save_open"]
         THEN /\ Raise(Exc("OSError", p[1], "Permission denied"))
              /\ UNCHANGED <<files, written>>
       ELSE IF fault = [entry |-> ItemAt(i), op |-> "save_write"]
         THEN \* the file is open and truncated; a file this call created
              \* is removed again by newer library versions
              /\ Raise(Exc("OSError", 0, "No space left on device"))
              /\ \E c \in (IF files[p] = NoFile THEN {NoFile, PartialFile}
                                                  ELSE {PartialFile}) :
                   files' = [files EXCEPT ![p] = c]
              /\ UNCHANGED written
         ELSE /\ files' = [files EXCEPT ![p] = EncodePNG(resized_img)]
              /\ written' = written \cup {ItemAt(i)}
              /\ pc' = "print" /\ exc' = exc
  /\ UNCHANGED <<src, fault, root, dirs, i, source_img, resized_img, out, run,
                 snap, prev, opened, ensured, propagated>>

\* line 42, then the next step of the for statement of line 31
PrintGenerated ==
  /\ pc = "print"
  /\ out' = Append(out, GeneratedLine(ItemAt(i)))
  /\ i' = i + 1
  /\ pc' = IF i + 1 <= N THEN "makedirs" ELSE "success"
  /\ UNCHANGED <<src, fault, root, dirs, files, source_img, resized_img, exc,
                 run, snap, prev, opened, ensured, written, attempts,
                 propagated>>

\* line 44
Success ==
  /\ pc = "success"
  /\ out' = Append(out, SuccessLine)
  /\ pc' = "done"
  /\ UNCHANGED <<src, fault, root, dirs, files, i, source_img, resized_img,
                 exc, run, snap, prev, opened, ensured, written, attempts,
                 propagated>>

\* variant: the handler removes what the run wrote
Except_Rollback ==
  /\ pc = "except"
  /\ out' = out \o <<ErrorLine(exc), PillowHint>>
  /\ files' = [p \in Paths |->
                IF p[1] \in written /\ p[2] = OutputName THEN NoFile
                                                          ELSE files[p]]
  /\ pc' = "done"
  /\ UNCHANGED <<src, fault, root, dirs, i, source_img, resized_img, exc, run,
                 snap, prev, opened, ensured, written, attempts, propagated>>

\* variant: the success line printed after the try statement
Except_FallsThrough ==
  /\ pc = "except"
  /\ out' = out \o <<ErrorLine(exc), PillowHint, SuccessLine>>
  /\ pc' = "done"
  /\ UNCHANGED <<src, fault, root, dirs, files, i, source_img, resized_img,
                 exc, run, snap, prev, opened, ensured, written, attempts,
                 propagated>>

\* lines 46-48
Except ==
  /\ pc = "except"
  /\ IF Catches(exc)
       THEN out' = out \o <<ErrorLine(exc), PillowHint>> /\ propagated' = FALSE
       ELSE out' = out /\ propagated' = TRUE
  /\ pc' = "done"
  /\ UNCHANGED <<src, fault, root, dirs, files, i, source_img, resized_img,
                 exc, run, snap, prev, opened, ensured, written, attempts>>

RunOk == pc = "done" /\ Len(out) > 0 /\ out[Len(out)] = SuccessLine

\* the script is started again with the same source and output_dir
Rerun ==
  /\ pc = "done"
  /\ run < MaxRuns
  /\ run' = run + 1
  /\ prev' = [ran |-> TRUE, ok |-> RunOk, dirs |-> dirs, files |-> files]
  /\ snap' = [root |-> root, dirs |-> dirs, files |-> files]
  /\ pc' = "main"
  /\ i' = 0
  /\ source_img' = NoImg
  /\ resized_img' = NoResized
  /\ exc' = NoExc
  /\ out' = <<>>
  /\ opened' = FALSE
  /\ ensured' = {}
  /\ written' = {}
  /\ attempts' = [s \in {"makedirs", "resize", "save"} |-> [k \in Entries |-> 0]]
  /\ propagated' = FALSE
  /\ UNCHANGED <<src, fault, root, dirs, files>>

Next ==
  \/ Main
  \/ Open
  \/ Convert
  \/ Makedirs
  \/ Resize
  \/ Save
  \/ PrintGenerated
  \/ Success
  \/ Except
  \/ Rerun

Spec == Init /\ [][Next]_vars

(* ====================== properties of the script ======================= *)
Tags == {out[j].tag : j \in 1..Len(out)}
Failed == pc = "done" /\ exc # NoExc
FailedEntry == IF i \in Entries THEN ItemAt(i) ELSE 0
\* the statement that raised, read off the history
MakedirsFailed == exc # NoExc /\ i \in Entries /\ ItemAt(i) \notin ensured
SaveFailed ==
  exc # NoExc /\ i \in Entries /\ attempts["save"][ItemAt(i)] > 0
              /\ ItemAt(i) \notin written
WriteFailed == MakedirsFailed \/ SaveFailed
DecodeFailed ==
  exc.text \in {"cannot identify image file", "image file is truncated"}
Icon(k) == [kind |-> "png", mode |-> "RGBA", w |-> Sizes[k], h |-> Sizes[k]]
Prefix(S) == \E a \in 0..N : S = 1..a
FsUnchanged == root = snap.root /\ dirs = snap.dirs /\ files = snap.files

\* C1: after a successful run every table entry has its directory and an
\* RGBA PNG of exactly size x size at ic_launcher.png, whatever the source's
\* mode and dimensions.
C1_SuccessOutputs ==
  RunOk => \A k \in Entries :
             k \in dirs /\ files[<<k, OutputName>>] = Icon(k)

C1_Witness ==
  RunOk /\ run = 1 /\ src.mode = "RGB" /\ src.w # src.h /\ snap.dirs = {}

\* C2: with a missing source the script reports SourceNotFound (not the
\* Error line of a failed load), never calls Image.open and leaves the
\* filesystem below output_dir as it was.
C2_MissingSource ==
  ~src.exists =>
    /\ ~opened
    /\ FsUnchanged
    /\ pc = "done" => out = <<NotFoundLine, SaveLogoHint>>

C2_Witness == ~src.exists /\ pc = "done" /\ dirs = {} /\ ~root

\* C3 (as claimed): a source that exists but cannot be decoded ends in an
\* Error line with no directory created and no file written.
C3_DecodeFailureNoEffect ==
  (Failed /\ src.exists /\ src.kind # "good" /\ DecodeFailed) =>
    ("Error" \in Tags /\ FsUnchanged)

\* C4: when os.makedirs or save raises at entry k, nothing is created or
\* written for the entries after k and the files written for the entries
\* before k stay as written.
C4_AbortAtEntry ==
  (pc \in {"except", "done"} /\ WriteFailed) =>
    /\ \A j \in Entries : j > FailedEntry =>
         /\ j \notin ensured \cup written
         /\ (j \in dirs <=> j \in snap.dirs)
         /\ \A n \in FileNames : files[<<j, n>>] = snap.files[<<j, n>>]
    /\ \A j \in Entries : j < FailedEntry =>
         j \in written /\ files[<<j, OutputName>>] = Icon(j)

C4_Witness ==
  /\ Failed /\ SaveFailed /\ FailedEntry = 3
  /\ snap.dirs = {} /\ dirs = {1, 2, 3}
  /\ files[<<2, OutputName>>] = Icon(2)

\* C5 (as claimed): the failure line of a failed os.makedirs or save names
\* the label of the failing entry and carries the cause.
C5_WriteErrorNamesLabel ==
  (Failed /\ WriteFailed) =>
    \E j \in 1..Len(out) :
      out[j].tag = "Error" /\ out[j].label = FailedEntry /\ out[j].cause # ""

\* C6: the success line is printed exactly when all five entries were
\* written in this run, after exactly one Generated line per entry; every
\* failed run prints an error indicator and no success line.
C6_SuccessIffAll ==
  /\ "Success" \in Tags => written = Entries
  /\ pc = "done" =>
       /\ "Success" \in Tags <=> written = Entries
       /\ "Success" \in Tags =>
            out = <<LoadedLine>> \o [k \in Entries |-> GeneratedLine(k)]
                    \o <<SuccessLine>>
       /\ "Success" \notin Tags =>
            ("Error" \in Tags \/ "SourceNotFound" \in Tags)
       /\ ~("Success" \in Tags /\ ("Error" \in Tags \/ "SourceNotFound" \in Tags))

C6_Witness == pc = "done" /\ "Success" \in Tags /\ written = Entries

\* C7: a second run after a successful one, with every directory and file
\* already there, succeeds, writes all five files again and leaves the
\* filesystem as the first run left it.
C7_Idempotent ==
  (pc = "done" /\ prev.ran /\ prev.ok) =>
    /\ RunOk
    /\ written = Entries
    /\ dirs = prev.dirs
    /\ files = prev.files

C7_Witness ==
  pc = "done" /\ run = 2 /\ prev.ok /\ RunOk /\ snap.dirs = Entries

\* C8: no statement is attempted twice, no exception leaves
\* generate_android_icons, every exception raised ends in an Error line,
\* a finished run has printed the success line or a failure line, and
\* every step moves the run forward.
Pos ==
  CASE pc = "main" -> 0
    [] pc = "open" -> 1
    [] pc = "convert" -> 2
    [] pc = "makedirs" -> 4 * i
    [] pc = "resize" -> 4 * i + 1
    [] pc = "save" -> 4 * i + 2
    [] pc = "print" -> 4 * i + 3
    [] pc = "success" -> 4 * N + 4
    [] pc = "except" -> 4 * N + 5
    [] pc = "done" -> 4 * N + 6

C8_Terminal ==
  /\ ~propagated
  /\ \A s \in DOMAIN attempts : \A k \in Entries : attempts[s][k] <= 1
  /\ pc = "done" =>
       /\ exc # NoExc => (ErrorLine(exc) \in {out[j] : j \in 1..Len(out)}
                           /\ "Success" \notin Tags)
       /\ Tags \cap {"Success", "Error", "SourceNotFound"} # {}

C8_Forward == IF run' = run THEN Pos' > Pos ELSE run' > run /\ pc = "done"

C8_ErrorsTerminalAndCaught == []C8_Terminal /\ [][C8_Forward]_vars

C8_Witness ==
  Failed /\ exc.type = "MemoryError" /\ "Error" \in Tags /\ FailedEntry = 2

\* C9: the entries written by this run are a prefix of the table, the
\* entries whose directory was ensured are that prefix or one entry more.
C9_PrefixOrder ==
  /\ Prefix(written)
  /\ Prefix(ensured)
  /\ written \subseteq ensured
  /\ Cardinality(ensured) <= Cardinality(written) + 1

C9_Witness ==
  pc = "resize" /\ ensured = {1, 2, 3} /\ written = {1, 2}

\* C10: a step only creates directories and creates or overwrites
\* ic_launcher.png of a table entry: nothing is deleted, no other path and
\* not the source are written; after an abort at entry k the files of the
\* later entries hold what they held before the run.
C10_Step ==
  /\ src' = src
  /\ dirs \subseteq dirs'
  /\ root => root'
  /\ \A p \in Paths :
       /\ files[p] # NoFile => files'[p] # NoFile
       /\ p[2] # OutputName => files'[p] = files[p]

C10_Later ==
  (pc \in {"except", "done"} /\ exc # NoExc) =>
    \A j \in Entries : j > FailedEntry =>
      files[<<j, OutputName>>] = snap.files[<<j, OutputName>>]

C10_Frame == []C10_Later /\ [][C10_Step]_vars

C10_Witness ==
  /\ Failed /\ FailedEntry = 2 /\ SaveFailed
  /\ files[<<1, OutputName>>] = Icon(1)
  /\ files[<<2, OutputName>>] = PartialFile
  /\ files[<<3, OutputName>>] = OldFile
  /\ files[<<1, "ic_launcher_round.png">>] = OldFile

====
